---- MODULE Spec2Model ----
(***************************************************************************)
(* The simulation core of the arcade shooter (src/unnamed/part_000): the   *)
(* frame callback animate and the steps it runs, the lifecycle controls,   *)
(* the 1500 ms setTimeout callbacks and the destruction animation.         *)
(*                                                                         *)
(* Lengths are integers in units of 1e-6 world units (0.22 is 220000), so  *)
(* that the wave speed alienSpeed * 1.1^k is exact for the waves modelled. *)
(* Times are integers in milliseconds.                                     *)
(***************************************************************************)
EXTENDS Integers, Sequences, FiniteSets, TLC

VARIABLES
    gameMode,          \* 'prototype' or 'full'
    gameStarted,
    gameOver,
    score,
    wave,
    lives,
    waveTransitioning,
    laserAvailable,
    laserActive,
    laserBeam,         \* [present, x]: the beam object, null when not present
    laserLastUsedWave,
    playerShip,        \* [present, x]: the ship object, null while not loaded
    aliens,            \* the enemy registry, in array order
    bullets,           \* the bullet registry, in array order
    keys,              \* [left, right, shoot, laser]
    lastShootTime,
    timers,            \* pending 1500 ms setTimeout callbacks, oldest first
    loads,             \* GLB loads in flight, one entry per loadModels call in full mode
    loops,             \* number of requestAnimationFrame(animate) chains running
    session,           \* number of resets so far (history, not program state)
    thrown,            \* TRUE after a tick that ended in an uncaught RangeError (history)
    resolved,          \* the widest bullet collision of the latest tick: the enemies in
                       \* reach of the bullet and the one it was resolved against (history)
    ticks,             \* number of ticks of a running game so far (bounds the exploration)
    presses            \* number of key events so far (bounds the exploration)

vars == <<gameMode, gameStarted, gameOver, score, wave, lives, waveTransitioning,
          laserAvailable, laserActive, laserBeam, laserLastUsedWave, playerShip,
          aliens, bullets, keys, lastShootTime, timers, loads, loops,
          session, thrown, resolved, ticks, presses>>

-----------------------------------------------------------------------------
(* CONFIG, lines 7-41, and the laser constants, lines 67-68 and 1212. *)

playerSpeed == 220000
playerBounds == 14000000
playerZ == 5000000
bulletSpeed == 600000
shootCooldown == 238
alienBaseCount == 12
alienSpacingX == 4000000
alienSpacingZ == 5000000
alienStartZ == -25000000
alienSpeed == 54000
alienRandomOffset == 1500000
alienHitDistance == 1500000
alienHitRadius == 1800000
maxLives == 5
pointsPerAlien == 100
LASER_INTERVAL == 5
LASER_DURATION == 1500
laserHitWidth == 1000000
bulletMinZ == -30000000
waveDelay == 1500

(* Bounds of the exploration. *)
MaxTicks == 3
MaxKeyEvents == 2
MaxResets == 1
MaxSpawnWave == 40
MaxFlightTicks == 58

-----------------------------------------------------------------------------
(* Arithmetic helpers. *)

Abs(n) == IF n < 0 THEN -n ELSE n

Sign(n) == IF n > 0 THEN 1 ELSE IF n < 0 THEN -1 ELSE 0

Min(a, b) == IF a < b THEN a ELSE b

Max(a, b) == IF a > b THEN a ELSE b


(* Math.ceil(Math.sqrt(n * 1.5)): the least c with c*c >= 1.5 n. *)
CeilSqrtOneAndHalf(n) == CHOOSE c \in 0..(n + 1) :
    /\ 2 * c * c >= 3 * n
    /\ \A d \in 0..(c - 1) : 2 * d * d < 3 * n

(* Math.ceil(a / b) for a >= 0, b > 0. *)
CeilDiv(a, b) == (a + b - 1) \div b

(* Math.floor(a / b) for b > 0 and any a; \div rounds toward minus infinity. *)
FloorDiv(a, b) == a \div b

(* a*a + b*b < r*r for |a|, |b|, r below 2^31 / 1000, without overflowing 32 bits: *)
(* each product is held as hi * 10^6 + lo.                                         *)
MulHi(a, b) ==
    LET a1 == a \div 1000  a0 == a % 1000
        b1 == b \div 1000  b0 == b % 1000
        mid == a1 * b0 + a0 * b1
        lo == (mid % 1000) * 1000 + a0 * b0
    IN  a1 * b1 + (mid \div 1000) + (lo \div 1000000)

MulLo(a, b) ==
    LET a1 == a \div 1000  a0 == a % 1000
        b1 == b \div 1000  b0 == b % 1000
        mid == a1 * b0 + a0 * b1
        lo == (mid % 1000) * 1000 + a0 * b0
    IN  lo % 1000000

(* Math.sqrt(dx*dx + dz*dz) < r *)
Within(dx, dz, r) ==
    LET a == Abs(dx)
        b == Abs(dz)
    IN  /\ a < r
        /\ b < r
        /\ LET lo == MulLo(a, a) + MulLo(b, b)
               hi == MulHi(a, a) + MulHi(b, b) + (lo \div 1000000)
               l == lo % 1000000
           IN  \/ hi < MulHi(r, r)
               \/ hi = MulHi(r, r) /\ l < MulLo(r, r)

-----------------------------------------------------------------------------
(* The random draws of the spawner.  Math.random() is in [0, 1), so each    *)
(* offset (Math.random() - 0.5) * alienRandomOffset * 2 is in [-1.5, 1.5).  *)
(* A draw p fixes the offsets of all enemies of one spawner run.            *)

JitterDraws == {1, 2}

JitterX(p, k) == IF p = 1 THEN 0 ELSE (((k + p) % 3) - 1) * 300000

JitterZ(p, k) == IF p = 1 THEN 0 ELSE ((k % 2) * 2 - 1) * 20000 * (p - 1)

-----------------------------------------------------------------------------
(* spawnAlienGrid and spawnChargerAlien. *)

NormalAlien(x, z) ==
    [type |-> "normal", x |-> x, z |-> z, health |-> 1, alive |-> TRUE,
     isCharging |-> FALSE, hits |-> 0]

ChargerAlien(x, z) ==
    [type |-> "charger", x |-> x, z |-> z, health |-> 2, alive |-> TRUE,
     isCharging |-> FALSE, hits |-> 0]

AlienCount(w) == alienBaseCount + (w - 1)

GridCols(w) == CeilSqrtOneAndHalf(AlienCount(w))

(* rows rounded down: the last, partial row is lost *)
GridRowsFloor(w) == AlienCount(w) \div GridCols(w)

GridRows(w) == CeilDiv(AlienCount(w), GridCols(w))

(* The two nested loops: row-major over the grid, stopping at alienCount. *)
GridAliens(w, p) ==
    LET cols == GridCols(w)
        rows == GridRows(w)
        n == Min(AlienCount(w), rows * cols)
        startX == -((cols - 1) * alienSpacingX) \div 2
    IN  [k \in 1..n |->
            LET row == (k - 1) \div cols
                col == (k - 1) % cols
            IN  NormalAlien(startX + col * alienSpacingX + JitterX(p, k),
                            alienStartZ - row * alienSpacingZ + JitterZ(p, k))]

ChargerCount(w) == IF w >= 3 THEN FloorDiv(w - 3, 3) + 1 ELSE 0

SpawnChargerAlien(index, p) ==
    ChargerAlien((2 * index - 1) * 3000000 + JitterX(p, index),
                 alienStartZ - 8000000 - index * 3000000)

ChargerAliens(w, p) == [i \in 1..ChargerCount(w) |-> SpawnChargerAlien(i - 1, p)]

SpawnAlienGrid(w, p) == GridAliens(w, p) \o ChargerAliens(w, p)

-----------------------------------------------------------------------------
(* The state one tick works on, as a record: the steps of animate are        *)
(* functions from such a record to the next.  t is the value of Date.now().  *)

NoHit == [matches |-> {}, hit |-> 0]

Sim == [score |-> score, wave |-> wave, lives |-> lives, gameOver |-> gameOver,
        waveTransitioning |-> waveTransitioning,
        laserAvailable |-> laserAvailable, laserActive |-> laserActive,
        laserBeam |-> laserBeam, laserLastUsedWave |-> laserLastUsedWave,
        playerShip |-> playerShip, aliens |-> aliens, bullets |-> bullets,
        keys |-> keys, lastShootTime |-> lastShootTime, timers |-> timers,
        thrown |-> FALSE, resolved |-> NoHit]

NoObject == [present |-> FALSE, x |-> 0]

Object(x) == [present |-> TRUE, x |-> x]

(* array.splice(i, 1), with i counted from 1 *)
Splice(seq, i) == [k \in 1..(Len(seq) - 1) |-> IF k < i THEN seq[k] ELSE seq[k + 1]]

(* A pending callback remembers the session that scheduled it. *)
Timer(kind) == [kind |-> kind, session |-> session]

(* updatePlayer *)
Clamp(x) == Max(-playerBounds, Min(playerBounds, x))

(* updatePlayer that constrains the position after each of the two moves *)
UpdatePlayerClampEach(s) ==
    IF ~s.playerShip.present THEN s
    ELSE LET x1 == IF s.keys.left THEN Clamp(s.playerShip.x - playerSpeed)
                   ELSE s.playerShip.x
             x2 == IF s.keys.right THEN Clamp(x1 + playerSpeed) ELSE x1
         IN  [s EXCEPT !.playerShip.x = x2]

UpdatePlayerNoClamp(s) ==
    IF ~s.playerShip.present THEN s
    ELSE LET x1 == IF s.keys.left THEN s.playerShip.x - playerSpeed ELSE s.playerShip.x
             x2 == IF s.keys.right THEN x1 + playerSpeed ELSE x1
         IN  [s EXCEPT !.playerShip.x = x2]

UpdatePlayer(s) ==
    IF ~s.playerShip.present THEN s
    ELSE LET x1 == IF s.keys.left THEN s.playerShip.x - playerSpeed ELSE s.playerShip.x
             x2 == IF s.keys.right THEN x1 + playerSpeed ELSE x1
         IN  [s EXCEPT !.playerShip.x = Clamp(x2)]

(* shoot *)
Bullet(x, z) == [x |-> x, z |-> z]

ShootNoCooldown(s, t) ==
    IF ~s.playerShip.present THEN s
    ELSE [s EXCEPT !.lastShootTime = t,
                   !.bullets = Append(@, Bullet(s.playerShip.x, playerZ - 1000000))]

Shoot(s, t) ==
    IF ~s.playerShip.present THEN s
    ELSE IF t - s.lastShootTime < shootCooldown THEN s
    ELSE [s EXCEPT !.lastShootTime = t,
                   !.bullets = Append(@, Bullet(s.playerShip.x, playerZ - 1000000))]

(* updateBullets without the far threshold *)
UpdateBulletsKeepsAll(s) ==
    [s EXCEPT !.bullets = [k \in 1..Len(s.bullets) |->
                              [s.bullets[k] EXCEPT !.z = @ - bulletSpeed]]]

(* updateBullets: every bullet moves, those past the far threshold are removed *)
UpdateBullets(s) ==
    LET moved == [k \in 1..Len(s.bullets) |->
                     [s.bullets[k] EXCEPT !.z = @ - bulletSpeed]]
    IN  [s EXCEPT !.bullets = SelectSeq(moved, LAMBDA b : ~(b.z < bulletMinZ))]

(* checkLaserAvailability; wave / LASER_INTERVAL and laserLastUsedWave /        *)
(* LASER_INTERVAL are real quotients by the same positive number, so            *)
(* currentCycle > lastUsedCycle compares the numerators.                        *)
(* checkLaserAvailability that arms the beam at the first interval only *)
CheckLaserAvailabilityOnce(s) ==
    IF s.laserActive THEN s
    ELSE [s EXCEPT !.laserAvailable =
             (s.wave = LASER_INTERVAL /\ s.laserLastUsedWave = 0)]

CheckLaserAvailability(s) ==
    IF s.laserActive THEN s
    ELSE IF s.wave >= LASER_INTERVAL /\ s.wave % LASER_INTERVAL = 0
         THEN LET lastUsed == IF s.laserLastUsedWave > 0 THEN s.laserLastUsedWave ELSE 0
              IN  [s EXCEPT !.laserAvailable = (s.wave > lastUsed)]
         ELSE [s EXCEPT !.laserAvailable = FALSE]

(* fireLaser that leaves laserAvailable set *)
FireLaserKeepsAvailable(s) ==
    IF ~s.laserAvailable \/ s.laserActive \/ ~s.playerShip.present THEN s
    ELSE [s EXCEPT !.laserActive = TRUE,
                   !.laserLastUsedWave = s.wave,
                   !.laserBeam = Object(s.playerShip.x),
                   !.timers = Append(@, Timer("endLaser"))]

(* fireLaser without its guard on the beam state *)
FireLaserUnguarded(s) ==
    IF ~s.playerShip.present THEN s
    ELSE [s EXCEPT !.laserAvailable = FALSE,
                   !.laserActive = TRUE,
                   !.laserLastUsedWave = s.wave,
                   !.laserBeam = Object(s.playerShip.x),
                   !.timers = Append(@, Timer("endLaser"))]

(* fireLaser that does not record the wave of the firing *)
FireLaserForgetsWave(s) ==
    IF ~s.laserAvailable \/ s.laserActive \/ ~s.playerShip.present THEN s
    ELSE [s EXCEPT !.laserAvailable = FALSE,
                   !.laserActive = TRUE,
                   !.laserBeam = Object(s.playerShip.x),
                   !.timers = Append(@, Timer("endLaser"))]

(* fireLaser *)
FireLaser(s) ==
    IF ~s.laserAvailable \/ s.laserActive \/ ~s.playerShip.present THEN s
    ELSE [s EXCEPT !.laserAvailable = FALSE,
                   !.laserActive = TRUE,
                   !.laserLastUsedWave = s.wave,
                   !.laserBeam = Object(s.playerShip.x),
                   !.timers = Append(@, Timer("endLaser"))]

(* the same points for every type of enemy *)
PointsFlat(alien) == pointsPerAlien

Points(alien) == IF alien.type = "charger" THEN pointsPerAlien * 3 ELSE pointsPerAlien

(* a beam that spares enemies still far from the player *)
LaserHitsNear(alien, laserX) ==
    alien.alive /\ Abs(alien.x - laserX) < laserHitWidth /\ alien.z >= 0

(* checkLaserCollisions: the loop body for the enemy at index i *)
LaserHits(alien, laserX) == alien.alive /\ Abs(alien.x - laserX) < laserHitWidth

RECURSIVE CheckLaserCollisionsFrom(_, _)
CheckLaserCollisionsFrom(s, i) ==
    IF i = 0 THEN s
    ELSE LET alien == s.aliens[i]
         IN  IF LaserHits(alien, s.laserBeam.x)
             THEN CheckLaserCollisionsFrom(
                      [s EXCEPT !.aliens[i].health = 0,
                                !.aliens[i].alive = FALSE,
                                !.score = @ + Points(alien)], i - 1)
             ELSE CheckLaserCollisionsFrom(s, i - 1)

CheckLaserCollisions(s) ==
    IF ~s.laserBeam.present THEN s ELSE CheckLaserCollisionsFrom(s, Len(s.aliens))

(* updateLaser *)
(* updateLaser that switches the beam off when the ship moves away from it *)
UpdateLaserUntilMove(s) ==
    IF ~s.laserActive \/ ~s.laserBeam.present \/ ~s.playerShip.present THEN s
    ELSE [CheckLaserCollisions([s EXCEPT !.laserBeam.x = s.playerShip.x])
             EXCEPT !.laserActive = (s.laserBeam.x = s.playerShip.x)]

UpdateLaser(s) ==
    IF ~s.laserActive \/ ~s.laserBeam.present \/ ~s.playerShip.present THEN s
    ELSE CheckLaserCollisions([s EXCEPT !.laserBeam.x = s.playerShip.x])

(* endLaser that removes the beam and leaves laserActive set *)
EndLaserStaysActive(s) == [s EXCEPT !.laserBeam = NoObject]

(* endLaser *)
EndLaser(s) == [s EXCEPT !.laserBeam = NoObject, !.laserActive = FALSE]

-----------------------------------------------------------------------------
(* Enemy movement and the contact check. *)

(* getAlienSpeed: alienSpeed * Math.pow(1.1, Math.floor((wave - 1) / 3)) *)
RECURSIVE TierSpeed(_)
TierSpeed(k) == IF k = 0 THEN alienSpeed ELSE (TierSpeed(k - 1) * 11) \div 10

(* a speed tier that rises with every wave *)
GetAlienSpeedPerWave(w) == TierSpeed(w - 1)

GetAlienSpeed(w) == TierSpeed(FloorDiv(w - 1, 3))

(* chargeSpeed: CONFIG.alienSpeed * 4, set when a charger is spawned *)
ChargeSpeed == alienSpeed * 4

(* the movement branch of the loop body of updateAliens *)
MoveAlien(alien, playerX, currentSpeed) ==
    IF alien.type = "charger" /\ alien.isCharging
    THEN [alien EXCEPT !.x = @ + Sign(playerX - alien.x) * currentSpeed * 2,
                       !.z = @ + ChargeSpeed]
    ELSE [alien EXCEPT !.z = @ + currentSpeed]

(* a contact test at the player's own depth *)
ReachedPlayerAtShip(alien) == alien.z >= playerZ

ReachedPlayer(alien) == alien.z >= playerZ - alienHitDistance

(* triggerGameOver *)
TriggerGameOver(s) == [s EXCEPT !.gameOver = TRUE]

(* playerHit that ends the game one life late *)
PlayerHitOneMore(s, index) ==
    LET s1 == [s EXCEPT !.aliens = Splice(@, index), !.lives = @ - 1]
    IN  IF s1.lives < 0 THEN TriggerGameOver([s1 EXCEPT !.thrown = TRUE])
        ELSE s1

(* playerHit: the enemy leaves the registry and a life is lost.  With lives   *)
(* below 0, updateLivesDisplay calls String.prototype.repeat with a negative  *)
(* count, which throws a RangeError: the rest of playerHit and of the tick is *)
(* not run.                                                                   *)
PlayerHit(s, index) ==
    LET s1 == [s EXCEPT !.aliens = Splice(@, index), !.lives = @ - 1]
    IN  IF s1.lives < 0 THEN [s1 EXCEPT !.thrown = TRUE]
        ELSE IF s1.lives <= 0 THEN TriggerGameOver(s1)
        ELSE s1

RECURSIVE UpdateAliensFrom(_, _)
UpdateAliensFrom(s, i) ==
    IF i = 0 \/ s.thrown THEN s
    ELSE LET playerX == IF s.playerShip.present THEN s.playerShip.x ELSE 0
             moved == MoveAlien(s.aliens[i], playerX, GetAlienSpeed(s.wave))
             s1 == [s EXCEPT !.aliens[i] = moved]
         IN  IF ReachedPlayer(moved)
             THEN UpdateAliensFrom(PlayerHit(s1, i), i - 1)
             ELSE UpdateAliensFrom(s1, i - 1)

UpdateAliens(s) == UpdateAliensFrom(s, Len(s.aliens))

-----------------------------------------------------------------------------
(* Bullet-enemy collisions. *)

HitRadius(alien) ==
    IF alien.type = "charger" THEN (alienHitRadius * 13) \div 10 ELSE alienHitRadius

(* a bullet test that does not skip killed enemies *)
BulletHitsKilled(bullet, alien) ==
    Within(bullet.x - alien.x, bullet.z - alien.z, HitRadius(alien))

BulletHits(bullet, alien) ==
    alien.alive /\ Within(bullet.x - alien.x, bullet.z - alien.z, HitRadius(alien))

(* the alive enemies within the hit radius of the bullet *)
Matches(registry, bullet) ==
    {j \in 1..Len(registry) : BulletHits(bullet, registry[j])}

(* the first of them in registry order *)
HitIndexFirst(registry, bullet) ==
    LET matches == Matches(registry, bullet)
    IN  IF matches = {} THEN 0
        ELSE CHOOSE j \in matches : \A k \in matches : j <= k

(* the inner loop: j runs from the last enemy down, the first match ends it *)
HitIndex(registry, bullet) ==
    LET matches == Matches(registry, bullet)
    IN  IF matches = {} THEN 0
        ELSE CHOOSE j \in matches : \A k \in matches : k <= j

(* history: the collision with the most enemies in reach is remembered *)
Resolve(s, i, j) ==
    LET matches == Matches(s.aliens, s.bullets[i])
    IN  IF Cardinality(matches) > Cardinality(s.resolved.matches)
        THEN [matches |-> matches, hit |-> j]
        ELSE s.resolved

(* damageAlien that leaves isCharging alone *)
DamageAlienCalm(alien) == alien

(* damageAlien *)
DamageAlien(alien) ==
    IF alien.type = "charger" THEN [alien EXCEPT !.isCharging = TRUE] ELSE alien

(* a hit that takes all the health left *)
ResolveHitKills(s, i, j) ==
    LET hit == [s.aliens[j] EXCEPT !.health = 0, !.hits = @ + 1]
        s1 == [s EXCEPT !.bullets = Splice(@, i)]
    IN  [s1 EXCEPT !.aliens[j] = [hit EXCEPT !.alive = FALSE],
                   !.score = @ + Points(hit)]

(* a hit that leaves the bullet in the registry *)
ResolveHitKeepsBullet(s, i, j) ==
    LET hit == [s.aliens[j] EXCEPT !.health = @ - 1, !.hits = @ + 1]
        s1 == [s EXCEPT !.resolved = Resolve(s, i, j)]
    IN  IF hit.health <= 0
        THEN [s1 EXCEPT !.aliens[j] = [hit EXCEPT !.alive = FALSE],
                        !.score = @ + Points(hit)]
        ELSE [s1 EXCEPT !.aliens[j] = DamageAlien(hit)]

(* the body of the if (distance2D < hitRadius) branch *)
ResolveHit(s, i, j) ==
    LET hit == [s.aliens[j] EXCEPT !.health = @ - 1, !.hits = @ + 1]
        s1 == [s EXCEPT !.bullets = Splice(@, i), !.resolved = Resolve(s, i, j)]
    IN  IF hit.health <= 0
        THEN [s1 EXCEPT !.aliens[j] = [hit EXCEPT !.alive = FALSE],
                        !.score = @ + Points(hit)]
        ELSE [s1 EXCEPT !.aliens[j] = DamageAlien(hit)]

RECURSIVE CheckCollisionsFrom(_, _)
CheckCollisionsFrom(s, i) ==
    IF i = 0 THEN s
    ELSE LET j == HitIndex(s.aliens, s.bullets[i])
         IN  IF j = 0 THEN CheckCollisionsFrom(s, i - 1)
             ELSE CheckCollisionsFrom(ResolveHit(s, i, j), i - 1)

CheckCollisions(s) == CheckCollisionsFrom(s, Len(s.bullets))

-----------------------------------------------------------------------------
(* Wave management. *)

(* checkWaveComplete without the waveTransitioning guard *)
CheckWaveCompleteNoGuard(s) ==
    IF Len(s.aliens) = 0
    THEN CheckLaserAvailability(
             [s EXCEPT !.waveTransitioning = TRUE,
                       !.wave = @ + 1,
                       !.timers = Append(@, Timer("spawn"))])
    ELSE s

(* checkWaveComplete counting two waves at once *)
CheckWaveCompleteSkips(s) ==
    IF Len(s.aliens) = 0 /\ ~s.waveTransitioning
    THEN CheckLaserAvailability(
             [s EXCEPT !.waveTransitioning = TRUE,
                       !.wave = @ + 2,
                       !.timers = Append(@, Timer("spawn"))])
    ELSE s

CheckWaveComplete(s) ==
    IF Len(s.aliens) = 0 /\ ~s.waveTransitioning
    THEN CheckLaserAvailability(
             [s EXCEPT !.waveTransitioning = TRUE,
                       !.wave = @ + 1,
                       !.timers = Append(@, Timer("spawn"))])
    ELSE s

-----------------------------------------------------------------------------
(* animate: the body of if (gameStarted && !gameOver), at time t. *)

HandleShoot(s, t) == IF s.keys.shoot THEN Shoot(s, t) ELSE s

(* the beam-key branch of animate without the line that clears the intent *)
HandleLaserKeepsIntent(s) ==
    IF s.keys.laser THEN FireLaser(s) ELSE s

HandleLaser(s) ==
    IF s.keys.laser THEN [FireLaser(s) EXCEPT !.keys.laser = FALSE] ELSE s

(* the steps after updateAliens are not reached when it threw *)
AfterAliens(s) == IF s.thrown THEN s ELSE CheckWaveComplete(CheckCollisions(s))

(* the frame with shoot moved behind the collision check *)
GameLogicShootLast(s, t) ==
    LET s1 == AfterAliens(UpdateAliens(UpdateLaser(UpdateBullets(
                  HandleLaser(UpdatePlayer(s))))))
    IN  IF s1.thrown THEN s1 ELSE HandleShoot(s1, t)

GameLogic(s, t) ==
    AfterAliens(UpdateAliens(UpdateLaser(UpdateBullets(
        HandleLaser(HandleShoot(UpdatePlayer(s), t))))))

Animate(s, t) == IF gameStarted /\ ~s.gameOver THEN GameLogic(s, t) ELSE s

-----------------------------------------------------------------------------
(* The actions. *)

SetSim(s) ==
    /\ score' = s.score
    /\ wave' = s.wave
    /\ lives' = s.lives
    /\ gameOver' = s.gameOver
    /\ waveTransitioning' = s.waveTransitioning
    /\ laserAvailable' = s.laserAvailable
    /\ laserActive' = s.laserActive
    /\ laserBeam' = s.laserBeam
    /\ laserLastUsedWave' = s.laserLastUsedWave
    /\ playerShip' = s.playerShip
    /\ aliens' = s.aliens
    /\ bullets' = s.bullets
    /\ keys' = s.keys
    /\ lastShootTime' = s.lastShootTime
    /\ timers' = s.timers
    /\ thrown' = s.thrown
    /\ resolved' = s.resolved

(* Date.now() is read by shoot alone.  A reading is given by the time since *)
(* the last shot: one millisecond short of the cooldown, or the cooldown.    *)
(* Before the first shot lastShootTime is 0 and the clock, milliseconds      *)
(* since 1970, is far beyond the cooldown.                                   *)
Elapsed == {shootCooldown - 1, shootCooldown}

FirstReading == 1000

Clock == IF lastShootTime = 0 THEN {FirstReading}
         ELSE {lastShootTime + e : e \in Elapsed}

(* One run of animate. *)
Tick ==
    /\ ticks < MaxTicks
    /\ \E now \in Clock : SetSim(Animate(Sim, now))
    /\ ticks' = IF gameStarted /\ ~gameOver THEN ticks + 1 ELSE ticks
    /\ UNCHANGED <<gameMode, gameStarted, loads, loops, session, presses>>

(* keydown and keyup, and the touch and mouse handlers of the buttons *)
KeyNames == {"left", "right", "shoot", "laser"}

KeyDown ==
    /\ presses < MaxKeyEvents
    /\ \E k \in KeyNames : ~keys[k] /\ keys' = [keys EXCEPT ![k] = TRUE]
    /\ presses' = presses + 1
    /\ UNCHANGED <<gameMode, gameStarted, gameOver, score, wave, lives,
                   waveTransitioning, laserAvailable, laserActive, laserBeam,
                   laserLastUsedWave, playerShip, aliens, bullets,
                   lastShootTime, timers, loads, loops, session, thrown, resolved, ticks>>

KeyUp ==
    /\ presses < MaxKeyEvents
    /\ \E k \in KeyNames : keys[k] /\ keys' = [keys EXCEPT ![k] = FALSE]
    /\ presses' = presses + 1
    /\ UNCHANGED <<gameMode, gameStarted, gameOver, score, wave, lives,
                   waveTransitioning, laserAvailable, laserActive, laserBeam,
                   laserLastUsedWave, playerShip, aliens, bullets,
                   lastShootTime, timers, loads, loops, session, thrown, resolved, ticks>>

(* The callback of setTimeout in checkWaveComplete: spawnAlienGrid (which    *)
(* starts with checkLaserAvailability), then waveTransitioning = false.      *)
(* a spawn callback that also resumes a finished game *)
SpawnCallbackRevives(s, p) ==
    LET s1 == CheckLaserAvailability(s)
    IN  [s1 EXCEPT !.aliens = SpawnAlienGrid(s1.wave, p),
                   !.waveTransitioning = FALSE,
                   !.gameOver = FALSE]

(* a spawn callback that adds the new enemies to those of the registry *)
SpawnCallbackAppends(s, p) ==
    LET s1 == CheckLaserAvailability(s)
    IN  [s1 EXCEPT !.aliens = @ \o SpawnAlienGrid(s1.wave, p),
                   !.waveTransitioning = FALSE]

(* a spawn callback that does nothing unless a session is running *)
SpawnCallbackIfRunning(s, p) ==
    IF gameStarted /\ ~s.gameOver
    THEN LET s1 == CheckLaserAvailability(s)
         IN  [s1 EXCEPT !.aliens = SpawnAlienGrid(s1.wave, p),
                        !.waveTransitioning = FALSE]
    ELSE s

SpawnCallback(s, p) ==
    LET s1 == CheckLaserAvailability(s)
    IN  [s1 EXCEPT !.aliens = SpawnAlienGrid(s1.wave, p),
                   !.waveTransitioning = FALSE]

SpawnTimeout ==
    /\ timers # <<>>
    /\ Head(timers).kind = "spawn"
    /\ \E p \in JitterDraws :
           SetSim([SpawnCallback(Sim, p) EXCEPT !.timers = Tail(timers),
                                                !.thrown = thrown,
                                                !.resolved = resolved])
    /\ UNCHANGED <<gameMode, gameStarted, loads, loops, session, ticks, presses>>

(* The callback of setTimeout in fireLaser. *)
EndLaserTimeout ==
    /\ timers # <<>>
    /\ Head(timers).kind = "endLaser"
    /\ SetSim([EndLaser(Sim) EXCEPT !.timers = Tail(timers), !.thrown = thrown,
                                                !.resolved = resolved])
    /\ UNCHANGED <<gameMode, gameStarted, loads, loops, session, ticks, presses>>

(* The last frame of animateDestruction for a killed enemy: it leaves the    *)
(* registry.  (For an enemy no longer in the registry indexOf gives -1 and   *)
(* nothing changes.)                                                         *)
AnimateDestruction ==
    /\ \E i \in 1..Len(aliens) :
        /\ ~aliens[i].alive
        /\ aliens' = Splice(aliens, i)
    /\ UNCHANGED <<gameMode, gameStarted, gameOver, score, wave, lives,
                   waveTransitioning, laserAvailable, laserActive, laserBeam,
                   laserLastUsedWave, playerShip, bullets, keys,
                   lastShootTime, timers, loads, loops, session, thrown, resolved, ticks, presses>>

-----------------------------------------------------------------------------
(* Lifecycle controls. *)

(* startGame that leaves waveTransitioning as it was *)
StartGameKeepsGuard ==
    /\ ~gameStarted
    /\ gameStarted' = TRUE
    /\ score' = 0
    /\ wave' = 1
    /\ lives' = maxLives
    /\ gameOver' = FALSE
    /\ laserAvailable' = FALSE
    /\ laserActive' = FALSE
    /\ laserLastUsedWave' = 0
    /\ \E p \in JitterDraws : aliens' = SpawnAlienGrid(1, p)
    /\ session' = session + 1
    /\ UNCHANGED <<gameMode, waveTransitioning, laserBeam, playerShip, bullets, keys,
                   lastShootTime, timers, loads, loops, thrown, resolved, ticks, presses>>

(* startGame *)
StartGame ==
    /\ ~gameStarted
    /\ gameStarted' = TRUE
    /\ score' = 0
    /\ wave' = 1
    /\ lives' = maxLives
    /\ gameOver' = FALSE
    /\ waveTransitioning' = FALSE
    /\ laserAvailable' = FALSE
    /\ laserActive' = FALSE
    /\ laserLastUsedWave' = 0
    /\ \E p \in JitterDraws : aliens' = SpawnAlienGrid(1, p)
    /\ session' = session + 1
    /\ UNCHANGED <<gameMode, laserBeam, playerShip, bullets, keys,
                   lastShootTime, timers, loads, loops, thrown, resolved, ticks, presses>>

(* restartGame, the onclick of the restart button of the game-over panel:  *)
(* triggerGameOver installs it and shows the panel.                        *)
RestartGame ==
    /\ gameOver
    /\ session < MaxResets
    /\ score' = 0
    /\ wave' = 1
    /\ lives' = maxLives
    /\ gameOver' = FALSE
    /\ gameStarted' = TRUE
    /\ waveTransitioning' = FALSE
    /\ laserAvailable' = FALSE
    /\ laserActive' = FALSE
    /\ laserLastUsedWave' = 0
    /\ laserBeam' = NoObject
    /\ bullets' = <<>>
    /\ playerShip' = IF playerShip.present THEN Object(0) ELSE playerShip
    /\ \E p \in JitterDraws : aliens' = SpawnAlienGrid(1, p)
    /\ session' = session + 1
    /\ UNCHANGED <<gameMode, keys, lastShootTime, timers, loads, loops,
                   thrown, resolved, ticks, presses>>

(* loadModels in full mode starts two loads; each ends in onModelLoaded *)
Load == [ship |-> FALSE, alien |-> FALSE]

(* switchGameMode, the onclick of the two mode buttons *)
SwitchGameMode ==
    /\ session < MaxResets
    /\ \E mode \in {"prototype", "full"} :
        /\ gameMode # mode
        /\ gameMode' = mode
        /\ IF mode = "prototype"
           THEN /\ playerShip' = Object(0)
                /\ loops' = loops + 1
                /\ loads' = loads
           ELSE /\ playerShip' = NoObject
                /\ loops' = loops
                /\ loads' = Append(loads, Load)
    /\ aliens' = <<>>
    /\ bullets' = <<>>
    /\ laserBeam' = NoObject
    /\ score' = 0
    /\ wave' = 1
    /\ lives' = maxLives
    /\ gameOver' = FALSE
    /\ gameStarted' = FALSE
    /\ laserAvailable' = FALSE
    /\ laserActive' = FALSE
    /\ laserLastUsedWave' = 0
    /\ session' = session + 1
    /\ UNCHANGED <<waveTransitioning, keys, lastShootTime, timers, thrown, resolved, ticks, presses>>

(* onModelLoaded: the second of the two loads starts another animate chain *)
Finish(load, i) ==
    /\ loads' = IF load.ship /\ load.alien THEN Splice(loads, i)
                ELSE [loads EXCEPT ![i] = load]
    /\ loops' = IF load.ship /\ load.alien THEN loops + 1 ELSE loops

(* The ship load ends: the model, or the placeholder when it failed, becomes *)
(* playerShip at (0, 0, playerZ).                                            *)
ShipLoaded ==
    /\ \E i \in 1..Len(loads) :
        /\ ~loads[i].ship
        /\ Finish([loads[i] EXCEPT !.ship = TRUE], i)
    /\ playerShip' = Object(0)
    /\ UNCHANGED <<gameMode, gameStarted, gameOver, score, wave, lives,
                   waveTransitioning, laserAvailable, laserActive, laserBeam,
                   laserLastUsedWave, aliens, bullets, keys,
                   lastShootTime, timers, session, thrown, resolved, ticks, presses>>

(* The alien load ends: alienModel is replaced, no game state changes. *)
AlienModelLoaded ==
    /\ \E i \in 1..Len(loads) :
        /\ ~loads[i].alien
        /\ Finish([loads[i] EXCEPT !.alien = TRUE], i)
    /\ UNCHANGED <<gameMode, gameStarted, gameOver, score, wave, lives,
                   waveTransitioning, laserAvailable, laserActive, laserBeam,
                   laserLastUsedWave, playerShip, aliens, bullets, keys,
                   lastShootTime, timers, session, thrown, resolved, ticks, presses>>

-----------------------------------------------------------------------------
(* Initial states.  Constructed is the state after init() has run in the     *)
(* default prototype mode.  An enemy needs some 500 ticks from its spawn     *)
(* depth to the player, so the exploration also starts from states of a      *)
(* running session, each computed with the operators above: the enemies of   *)
(* a wave as the spawner places them, those not named in keep shot, the      *)
(* survivors moved by the number of ticks that leaves the front one `back`   *)
(* ticks before contact, the ship `steps` moves from the centre.             *)

NoKeys == [left |-> FALSE, right |-> FALSE, shoot |-> FALSE, laser |-> FALSE]

Scenario(w, keep, back, lv, steps, lastUsed) ==
    [wave |-> w, keep |-> keep, back |-> back, lives |-> lv, steps |-> steps,
     lastUsed |-> lastUsed]

Scenarios ==
    { Scenario(1, {3}, 1, 1, 0, 0),
      Scenario(1, {3, 4}, 1, 1, 0, 0),
      Scenario(1, {3, 4}, 2, 5, 18, 0),
      Scenario(1, {3, 4}, 2, 5, 9, 0),
      Scenario(1, {3}, 2, 5, 63, 0),
      Scenario(3, {15}, 6, 5, -14, 0),
      Scenario(4, {3}, 2, 5, 0, 0),
      Scenario(5, {3, 17}, 2, 2, 0, 0),
      Scenario(9, {3}, 2, 5, -9, 5) }

Keep(seq, keep) ==
    LET F[i \in 0..Len(seq)] ==
            IF i = 0 THEN <<>>
            ELSE IF i \in keep THEN Append(F[i - 1], seq[i]) ELSE F[i - 1]
    IN  F[Len(seq)]

RECURSIVE SumOver(_, _)
SumOver(seq, i) == IF i = 0 THEN 0 ELSE Points(seq[i]) + SumOver(seq, i - 1)

RECURSIVE MaxZ(_, _)
MaxZ(seq, i) == IF i = 1 THEN seq[1].z ELSE Max(seq[i].z, MaxZ(seq, i - 1))

(* points of all enemies of the waves before w *)
RECURSIVE EarlierPoints(_)
EarlierPoints(w) ==
    IF w <= 1 THEN 0
    ELSE EarlierPoints(w - 1) + SumOver(SpawnAlienGrid(w - 1, 1),
                                        Len(SpawnAlienGrid(w - 1, 1)))

TicksToContact(z, w) == CeilDiv(playerZ - alienHitDistance - z, GetAlienSpeed(w))

Running(sc, p) ==
    LET spawned == SpawnAlienGrid(sc.wave, p)
        kept == Keep(spawned, sc.keep)
        n == TicksToContact(MaxZ(kept, Len(kept)), sc.wave) - sc.back
        lost == maxLives - sc.lives
    IN  /\ gameMode = "prototype"
        /\ gameStarted = TRUE
        /\ gameOver = FALSE
        /\ score = EarlierPoints(sc.wave) + SumOver(spawned, Len(spawned))
                     - SumOver(kept, Len(kept)) - lost * pointsPerAlien
        /\ wave = sc.wave
        /\ lives = sc.lives
        /\ waveTransitioning = FALSE
        /\ laserAvailable = (sc.wave % LASER_INTERVAL = 0 /\ sc.wave > sc.lastUsed)
        /\ laserActive = FALSE
        /\ laserBeam = NoObject
        /\ laserLastUsedWave = sc.lastUsed
        /\ playerShip = Object(sc.steps * playerSpeed)
        /\ aliens = [k \in 1..Len(kept) |->
                        [kept[k] EXCEPT !.z = @ + n * GetAlienSpeed(sc.wave)]]
        /\ bullets = <<>>
        /\ keys = NoKeys
        /\ lastShootTime = FirstReading
        /\ timers = <<>>
        /\ loads = <<>>
        /\ loops = 1
        /\ session = 0
        /\ thrown = FALSE
        /\ resolved = NoHit
        /\ ticks = 0
        /\ presses = 0

Constructed ==
    /\ gameMode = "prototype"
    /\ gameStarted = FALSE
    /\ gameOver = FALSE
    /\ score = 0
    /\ wave = 1
    /\ lives = maxLives
    /\ waveTransitioning = FALSE
    /\ laserAvailable = FALSE
    /\ laserActive = FALSE
    /\ laserBeam = NoObject
    /\ laserLastUsedWave = 0
    /\ playerShip = Object(0)
    /\ aliens = <<>>
    /\ bullets = <<>>
    /\ keys = NoKeys
    /\ lastShootTime = 0
    /\ timers = <<>>
    /\ loads = <<>>
    /\ loops = 1
    /\ session = 0
    /\ thrown = FALSE
    /\ resolved = NoHit
    /\ ticks = 0
    /\ presses = 0

Init ==
    \/ Constructed
    \/ \E sc \in Scenarios : \E p \in JitterDraws : Running(sc, p)

Next ==
    \/ Tick
    \/ KeyDown
    \/ KeyUp
    \/ SpawnTimeout
    \/ EndLaserTimeout
    \/ AnimateDestruction
    \/ StartGame
    \/ RestartGame
    \/ SwitchGameMode
    \/ ShipLoaded
    \/ AlienModelLoaded

Spec == Init /\ [][Next]_vars

(* The timeouts of the event loop fire: the oldest pending callback is run   *)
(* in the end.  Taking the head off the queue is what SpawnTimeout and       *)
(* EndLaserTimeout, and no other action, do, and one of the two is enabled   *)
(* whenever the queue has an entry.                                          *)
TimeoutFires == timers # <<>> /\ timers' = Tail(timers)

FairSpec == Spec /\ WF_timers(TimeoutFires)

-----------------------------------------------------------------------------
(* The spawner alone, on every wave up to MaxSpawnWave: the session has      *)
(* cleared the waves before w without a loss and without using the beam, the *)
(* wave check has just counted w and scheduled the spawn.                    *)

InitSpawn ==
    \E w \in 2..MaxSpawnWave :
        /\ gameMode = "prototype"
        /\ gameStarted = TRUE
        /\ gameOver = FALSE
        /\ score = EarlierPoints(w)
        /\ wave = w
        /\ lives = maxLives
        /\ waveTransitioning = TRUE
        /\ laserAvailable = (w % LASER_INTERVAL = 0)
        /\ laserActive = FALSE
        /\ laserBeam = NoObject
        /\ laserLastUsedWave = 0
        /\ playerShip = Object(0)
        /\ aliens = <<>>
        /\ bullets = <<>>
        /\ keys = NoKeys
        /\ lastShootTime = FirstReading
        /\ timers = <<[kind |-> "spawn", session |-> 0]>>
        /\ loads = <<>>
        /\ loops = 1
        /\ session = 0
        /\ thrown = FALSE
        /\ resolved = NoHit
        /\ ticks = 0
        /\ presses = 0

SpecSpawn == (Constructed \/ InitSpawn) /\ [][SpawnTimeout \/ StartGame]_vars

-----------------------------------------------------------------------------
(* Bullets in flight.  A bullet needs 57 frames from the ship to the far     *)
(* threshold, so its whole flight is followed from states of a session that  *)
(* has just entered wave 2: the spawner has filled the registry, and the     *)
(* bullets shot during the delay are on their way, each `age` frames old,    *)
(* the oldest first, all shot from x (the centre column or between two       *)
(* columns).  No key is held.                                                *)

FlightAges == {1, 20, 48, 55, 56}

FlightXs == {0, alienSpacingX \div 2}

Aged(x, age) == Bullet(x, playerZ - 1000000 - age * bulletSpeed)

InFlight(x) ==
    {<<>>} \cup {<<Aged(x, a)>> : a \in FlightAges}
           \cup {<<Aged(x, pair[1]), Aged(x, pair[2])>> :
                    pair \in {pr \in FlightAges \X FlightAges : pr[2] < pr[1]}}

InitFlight ==
    \E p \in JitterDraws : \E x \in FlightXs : \E flying \in InFlight(x) :
        /\ gameMode = "prototype"
        /\ gameStarted = TRUE
        /\ gameOver = FALSE
        /\ score = EarlierPoints(2)
        /\ wave = 2
        /\ lives = maxLives
        /\ waveTransitioning = FALSE
        /\ laserAvailable = FALSE
        /\ laserActive = FALSE
        /\ laserBeam = NoObject
        /\ laserLastUsedWave = 0
        /\ playerShip = Object(x)
        /\ aliens = SpawnAlienGrid(2, p)
        /\ bullets = flying
        /\ keys = NoKeys
        /\ lastShootTime = FirstReading + Len(flying) * shootCooldown
        /\ timers = <<>>
        /\ loads = <<>>
        /\ loops = 1
        /\ session = 0
        /\ thrown = FALSE
        /\ resolved = NoHit
        /\ ticks = 0
        /\ presses = 0

(* One run of animate, followed for MaxFlightTicks frames. *)
FlightTick ==
    /\ ticks < MaxFlightTicks
    /\ \E now \in Clock : SetSim(Animate(Sim, now))
    /\ ticks' = IF gameStarted /\ ~gameOver THEN ticks + 1 ELSE ticks
    /\ UNCHANGED <<gameMode, gameStarted, loads, loops, session, presses>>

(* requestAnimationFrame keeps calling animate: the next frame is run in    *)
(* the end.  Counting the frame is what FlightTick, and no other action,     *)
(* does in a running session.                                                *)
FrameRuns == ticks < MaxFlightTicks /\ ticks' = ticks + 1

SpecFlight == InitFlight /\ [][FlightTick]_vars /\ WF_ticks(FrameRuns)

-----------------------------------------------------------------------------
(* The ship alone.  The session has just started; the ship stands at one of  *)
(* the two bounds, one or two moves inside them, or at the centre, and the   *)
(* keys are pressed and released from there.                                 *)

MoveXs ==
    {-playerBounds, playerSpeed - playerBounds, 2 * playerSpeed - playerBounds, 0,
     playerBounds - 2 * playerSpeed, playerBounds - playerSpeed, playerBounds}

InitMove ==
    \E p \in JitterDraws : \E x \in MoveXs :
        /\ gameMode = "prototype"
        /\ gameStarted = TRUE
        /\ gameOver = FALSE
        /\ score = 0
        /\ wave = 1
        /\ lives = maxLives
        /\ waveTransitioning = FALSE
        /\ laserAvailable = FALSE
        /\ laserActive = FALSE
        /\ laserBeam = NoObject
        /\ laserLastUsedWave = 0
        /\ playerShip = Object(x)
        /\ aliens = SpawnAlienGrid(1, p)
        /\ bullets = <<>>
        /\ keys = NoKeys
        /\ lastShootTime = 0
        /\ timers = <<>>
        /\ loads = <<>>
        /\ loops = 1
        /\ session = 0
        /\ thrown = FALSE
        /\ resolved = NoHit
        /\ ticks = 0
        /\ presses = 0

SpecMove == InitMove /\ [][Tick \/ KeyDown \/ KeyUp]_vars

-----------------------------------------------------------------------------
(* Properties. *)

Normals == {i \in DOMAIN aliens : aliens[i].type = "normal"}

Chargers == {i \in DOMAIN aliens : aliens[i].type = "charger"}

(* a step of a running game's tick, and a step of a reset *)
RunningTick == ticks' # ticks

Reset == session' # session

(* C1: the player's lateral position is always within [-playerBounds,        *)
(* playerBounds], after any ticks with any left/right intent and any         *)
(* lifecycle operation.                                                       *)
C1_PlayerInBounds == -playerBounds <= playerShip.x /\ playerShip.x <= playerBounds

C1_Witness == playerShip.present /\ playerShip.x = playerBounds /\ ticks > 0

(* C2: while gameOver stays true, score, wave, lives, waveTransitioning, the *)
(* beam state and both registries do not change, whichever step is taken     *)
(* (a tick, a timeout callback, the end of a destruction animation).         *)
C2_FrozenWhileGameOver ==
    [][gameOver /\ gameOver' =>
          UNCHANGED <<score, wave, lives, waveTransitioning, laserAvailable,
                      laserActive, laserLastUsedWave, aliens, bullets>>]_vars

(* C3: a timeout callback scheduled before a reset never changes the enemy   *)
(* registry, waveTransitioning or laserActive after that reset.              *)
C3_ResetCancelsCallbacks ==
    [][(timers # <<>> /\ timers' = Tail(timers) /\ Head(timers).session # session) =>
          UNCHANGED <<aliens, waveTransitioning, laserActive>>]_vars

(* C4: lives is always between 0 and maxLives. *)
C4_LivesInRange == 0 <= lives /\ lives <= maxLives

(* C5: laserAvailable is true only when wave is a multiple of LASER_INTERVAL *)
(* whose cycle index wave / 5 is beyond the cycle index of the wave the beam *)
(* was last used in: so it is false from a firing at wave w until wave is a  *)
(* greater multiple of 5, and false whenever wave is not a multiple.         *)
C5_LaserAvailability ==
    laserAvailable =>
        /\ wave % LASER_INTERVAL = 0
        /\ (wave \div LASER_INTERVAL) > (laserLastUsedWave \div LASER_INTERVAL)

C5_Witness == laserAvailable /\ laserLastUsedWave > 0 /\ ticks > 0

(* C6: a tick that reads the beam intent with laserAvailable and not         *)
(* laserActive sets laserAvailable = false, laserActive = true and           *)
(* laserLastUsedWave = wave and creates the beam; and laserActive always     *)
(* becomes false again, with no beam left.                                    *)
C6_FireThenEnd ==
    /\ [][(RunningTick /\ keys.laser /\ laserAvailable /\ ~laserActive) =>
             (~laserAvailable' /\ laserActive' /\ laserLastUsedWave' = wave
                /\ laserBeam'.present)]_vars
    /\ (laserActive ~> (~laserActive /\ ~laserBeam.present))

C6_Witness ==
    ~laserActive /\ ~laserBeam.present /\ ~laserAvailable /\ laserLastUsedWave = wave

(* C7: after one run of the spawner at wave N the registry holds exactly     *)
(* alienBaseCount + (N - 1) normal enemies of health 1 and, for N >= 3,      *)
(* floor((N - 3) / 3) + 1 chargers of health 2, none for N < 3; the grid has *)
(* at least as many cells as normal enemies; at wave 1 there are 12 enemies. *)
C7_SpawnCounts ==
    aliens # <<>> =>
        /\ Cardinality(Normals) = alienBaseCount + (wave - 1)
        /\ \A i \in Normals : aliens[i].health = 1 /\ aliens[i].alive
        /\ Cardinality(Chargers) = IF wave >= 3 THEN ((wave - 3) \div 3) + 1 ELSE 0
        /\ \A i \in Chargers : aliens[i].health = 2 /\ aliens[i].alive
        /\ GridCols(wave) * GridRows(wave) >= alienBaseCount + (wave - 1)
        /\ wave = 1 => Len(aliens) = 12

C7_Witness == wave = 9 /\ Cardinality(Normals) = 20 /\ Cardinality(Chargers) = 3

(* C8: a normal enemy is killed by exactly 1 bullet collision, a charger by  *)
(* exactly 2; after its first collision a charger is alive with health 1 and *)
(* isCharging (hits counts the bullet collisions of an enemy; the beam has   *)
(* killed no enemy of a session that never fired it).                        *)
HitsToKill(alien) == IF alien.type = "charger" THEN 2 ELSE 1

C8_HitsToKill ==
    \A i \in DOMAIN aliens :
        LET a == aliens[i] IN
        /\ a.hits <= HitsToKill(a)
        /\ a.hits = HitsToKill(a) => ~a.alive
        /\ a.alive => a.health = HitsToKill(a) - a.hits
        /\ (laserLastUsedWave = 0 /\ a.hits < HitsToKill(a)) => a.alive
        /\ (a.type = "charger" /\ a.alive /\ a.hits = 1) => a.isCharging

C8_Witness ==
    \E i \in Chargers : ~aliens[i].alive /\ aliens[i].hits = 2 /\ laserLastUsedWave = 0

(* C9: a tick of a running game that ends with the registry empty and had no *)
(* transition in progress increases wave by exactly 1 and sets the guard,    *)
(* and wave changes in no other tick; the spawn callback fills the registry  *)
(* with the enemies of the wave value it finds and clears the guard; and a   *)
(* transition in progress always ends, with the registry filled.             *)
C9_WaveClear ==
    /\ [][(RunningTick /\ ~gameOver') =>
             IF aliens' = <<>> /\ ~waveTransitioning
             THEN wave' = wave + 1 /\ waveTransitioning'
             ELSE wave' = wave /\ waveTransitioning' = waveTransitioning]_vars
    /\ [][(timers # <<>> /\ timers' = Tail(timers) /\ Head(timers).kind = "spawn") =>
             /\ ~waveTransitioning'
             /\ wave' = wave
             /\ Len(aliens') = alienBaseCount + (wave - 1)
                                 + (IF wave >= 3 THEN ((wave - 3) \div 3) + 1 ELSE 0)
             /\ \A i \in DOMAIN aliens' : aliens'[i].alive]_vars
    /\ (waveTransitioning ~> (~waveTransitioning /\ aliens # <<>>))

C9_Witness == wave = 10 /\ ~waveTransitioning /\ Len(aliens) = 24 /\ session = 0

(* C10 as stated: every reset (startGame, restartGame, switchGameMode) ends  *)
(* with score 0, wave 1, lives maxLives, no game over, no transition, the    *)
(* beam state cleared, no bullets and the wave-1 enemies in the registry.    *)
ResetValues ==
    /\ score' = 0
    /\ wave' = 1
    /\ lives' = maxLives
    /\ ~gameOver'
    /\ ~laserAvailable'
    /\ ~laserActive'
    /\ laserLastUsedWave' = 0
    /\ bullets' = <<>>

WaveOneSet ==
    /\ Len(aliens') = alienBaseCount
    /\ \A i \in DOMAIN aliens' :
           aliens'[i].type = "normal" /\ aliens'[i].alive /\ aliens'[i].health = 1

-----------------------------------------------------------------------------
(* C11: two bullet creations are at least shootCooldown apart.  shoot is the *)
(* only writer of lastShootTime and writes it exactly when it creates a      *)
(* bullet; a bullet made in a frame has moved once when the frame ends.  So: *)
(* lastShootTime only ever advances by shootCooldown or more, a frame leaves *)
(* at most one new bullet, and a frame that leaves lastShootTime alone, as   *)
(* every frame inside the cooldown window does, leaves no new bullet.        *)
FreshBullets(seq) ==
    {k \in DOMAIN seq : seq[k].z = playerZ - 1000000 - bulletSpeed}

C11_ShootCooldown ==
    [][/\ lastShootTime' # lastShootTime =>
             /\ RunningTick /\ keys.shoot /\ playerShip.present
             /\ lastShootTime' - lastShootTime >= shootCooldown
       /\ RunningTick =>
             /\ Cardinality(FreshBullets(bullets')) <= 1
             /\ lastShootTime' = lastShootTime => FreshBullets(bullets') = {}
             /\ (lastShootTime' = lastShootTime /\ ~keys.laser) =>
                    Len(bullets') <= Len(bullets)]_vars

(* fire held over two frames, the second inside the window: one bullet *)
C11_Witness ==
    /\ keys.shoot /\ playerShip.present /\ ticks >= 2
    /\ Len(bullets) = 1
    /\ bullets[1].z = playerZ - 1000000 - 2 * bulletSpeed

-----------------------------------------------------------------------------
(* Kills of one frame.  In a frame without a contact no enemy leaves the     *)
(* registry, so the enemy at index i before and after is the same one.  An   *)
(* enemy that died with fewer bullet collisions than its health was killed   *)
(* by the beam.                                                              *)
NoContact == Len(aliens') = Len(aliens)

Died(i) == aliens[i].alive /\ ~aliens'[i].alive

ByBeam(i) == aliens'[i].hits < HitsToKill(aliens'[i])

(* the points of a normal (bullet) kill of the enemy *)
BulletPoints(alien) ==
    IF alien.type = "charger" THEN 3 * pointsPerAlien ELSE pointsPerAlien

RECURSIVE Awarded(_, _)
Awarded(i, beamFactor) ==
    IF i = 0 THEN 0
    ELSE Awarded(i - 1, beamFactor)
           + (IF ~Died(i) THEN 0
              ELSE IF ByBeam(i) THEN beamFactor * BulletPoints(aliens[i])
              ELSE BulletPoints(aliens[i]))

(* C12: every enemy destroyed by the beam is scored at three times the       *)
(* points of a bullet kill of that enemy.                                    *)
C12_BeamTriple ==
    [][(RunningTick /\ NoContact) => score' - score = Awarded(Len(aliens), 3)]_vars

-----------------------------------------------------------------------------
-----------------------------------------------------------------------------
(* The bullet made in a frame, after the one move of that frame. *)
NewBullet == Bullet(playerShip'.x, playerZ - 1000000 - bulletSpeed)

Created == RunningTick /\ lastShootTime' # lastShootTime /\ ~thrown'

(* C14 as stated: a bullet created in a tick resolves no collision in that   *)
(* tick, so it is still in the registry when the tick ends.                  *)
C14_NoHitInCreationTick ==
    [][Created => FreshBullets(bullets') # {}]_vars

(* C14 amended: animate calls shoot before updateBullets and checkCollisions *)
(* so the new bullet is moved once and collision-checked in the tick of its  *)
(* creation.  It is gone at the end of the tick exactly when it hit: if it   *)
(* is gone, an enemy within the hit radius of its position took a hit, and   *)
(* if it is still there, no alive enemy is within the radius.                *)
C14_CheckedInCreationTick ==
    [][Created =>
         IF FreshBullets(bullets') = {}
         THEN \E j \in DOMAIN aliens' :
                 /\ aliens'[j].hits >= 1
                 /\ Within(NewBullet.x - aliens'[j].x, NewBullet.z - aliens'[j].z,
                           HitRadius(aliens'[j]))
         ELSE \A j \in DOMAIN aliens' : ~BulletHits(NewBullet, aliens'[j])]_vars

(* one tick of a session that had no bullet: a shot, and a hit in that tick *)
C14_Witness ==
    /\ session = 0 /\ ticks = 1
    /\ lastShootTime > FirstReading
    /\ resolved.hit > 0
    /\ bullets = <<>>

-----------------------------------------------------------------------------
(* The enemies of the registry that the movement step of this frame takes to *)
(* the contact depth (the depth does not depend on the lateral move).        *)
ContactDepth == playerZ - alienHitDistance

Arriving ==
    {i \in DOMAIN aliens :
        MoveAlien(aliens[i], 0, GetAlienSpeed(wave)).z >= ContactDepth}

AliveArriving == {i \in Arriving : aliens[i].alive}

(* C15: an enemy ends in one way only.  An enemy that was killed, and is in  *)
(* the registry only until its destruction animation ends, is not advanced   *)
(* and costs no life: without a contact the dead enemies keep their depth,   *)
(* and the lives lost in a frame are the alive enemies that arrive.          *)
C15_OneEnding ==
    [][(RunningTick /\ ~thrown') =>
          /\ lives - lives' = Cardinality(AliveArriving)
          /\ NoContact =>
                \A i \in DOMAIN aliens :
                    ~aliens[i].alive => aliens'[i].z = aliens[i].z]_vars

-----------------------------------------------------------------------------
(* C16: score is a non-negative integer and wave is at least 1 in every      *)
(* state; a step that is no reset never lowers score and leaves wave as it   *)
(* is or adds one to it; a reset puts wave back to 1 and score to 0.         *)
C16_ScoreAndWaveMonotonic ==
    /\ [](score \in Nat /\ wave \in Nat /\ wave >= 1)
    /\ [][/\ score' \in Nat /\ wave' \in Nat /\ wave' >= 1
          /\ IF Reset THEN wave' = 1 /\ score' = 0
             ELSE score' >= score /\ (wave' = wave \/ wave' = wave + 1)]_vars

(* the last enemy of a wave was shot, which raised score to the points of    *)
(* all enemies so far, and the wave check has then counted the next wave     *)
C16_Witness ==
    /\ ticks > 0 /\ session = 0 /\ lives = maxLives
    /\ waveTransitioning /\ wave > 1
    /\ score = EarlierPoints(wave)

-----------------------------------------------------------------------------
(* alienSpeed * 1.1^k with k = floor((w - 1) / 3), in the unit of the model  *)
(* (exact up to k = 3, the tiers the exploration reaches).                   *)
RECURSIVE Pow(_, _)
Pow(b, e) == IF e = 0 THEN 1 ELSE b * Pow(b, e - 1)

SpeedTier(w) == (w - 1) \div 3

SpeedAtWave(w) == (alienSpeed * Pow(11, SpeedTier(w))) \div Pow(10, SpeedTier(w))

(* C17: in a frame every enemy that is not charging advances in depth by     *)
(* alienSpeed * 1.1^floor((wave - 1) / 3), with the wave value the frame     *)
(* started with, and keeps its lateral position (a frame with a contact      *)
(* shifts the registry and is left out).                                     *)
C17_SpeedByTier ==
    [][(RunningTick /\ NoContact /\ ~thrown') =>
          \A i \in DOMAIN aliens :
              ~aliens[i].isCharging =>
                  /\ aliens'[i].z = aliens[i].z + SpeedAtWave(wave)
                  /\ aliens'[i].x = aliens[i].x]_vars

(* a frame of wave 9 (tier 2) has moved an enemy of the wave *)
C17_Witness ==
    /\ wave = 9 /\ ticks > 0 /\ session = 0 /\ aliens # <<>>
    /\ \E i \in DOMAIN aliens : aliens[i].alive /\ ~aliens[i].isCharging

-----------------------------------------------------------------------------
(* C18: an enemy whose depth reaches playerZ - alienHitDistance gets one     *)
(* player-hit in that frame, wherever it is laterally.  No enemy at that     *)
(* depth is ever left in the registry; a frame removes as many enemies as it *)
(* takes lives, one per enemy that the movement step takes to the depth; and *)
(* the frame ends with gameOver exactly when lives has reached 0.            *)
C18_ContactByDepth ==
    /\ [](\A i \in DOMAIN aliens : aliens[i].z < ContactDepth)
    /\ [][RunningTick =>
             /\ Len(aliens) - Len(aliens') = lives - lives'
             /\ ~thrown' => lives - lives' = Cardinality(Arriving)
             /\ gameOver' <=> lives' <= 0]_vars

(* a life was lost to an enemy that was more than the hit radius away from   *)
(* the ship laterally                                                        *)
C18_Witness ==
    /\ session = 0 /\ ticks >= 1 /\ lives = maxLives - 1 /\ ~gameOver
    /\ playerShip.x > 4000000 + alienHitRadius

-----------------------------------------------------------------------------
(* the pending callbacks that end a beam *)
EndLaserTimers(seq) == {k \in DOMAIN seq : seq[k].kind = "endLaser"}

Refused == ~(laserAvailable /\ ~laserActive)

(* C19: unless laserAvailable is true and laserActive is false, fireLaser    *)
(* does nothing: it returns the state it was given, and a frame that calls   *)
(* it (the laser key is down) leaves laserActive, laserLastUsedWave and the  *)
(* presence of a beam as they were and schedules no beam-end callback;       *)
(* laserAvailable changes in such a frame only with the wave, and without a  *)
(* beam the beam object is untouched.                                        *)
C19_FireLaserNoOp ==
    /\ [](Refused => FireLaser(Sim) = Sim)
    /\ [][(RunningTick /\ keys.laser /\ Refused) =>
             /\ laserActive' = laserActive
             /\ laserLastUsedWave' = laserLastUsedWave
             /\ laserBeam'.present = laserBeam.present
             /\ ~laserActive => laserBeam' = laserBeam
             /\ wave' = wave => laserAvailable' = laserAvailable
             /\ Cardinality(EndLaserTimers(timers')) =
                    Cardinality(EndLaserTimers(timers))]_vars

(* the laser key was pressed and a frame has consumed it (only animate lowers *)
(* a key without a key-up event) in a session whose beam was never available  *)
C19_Witness ==
    /\ session = 0 /\ presses = 1 /\ keys = NoKeys /\ ticks >= 1
    /\ laserLastUsedWave = 0 /\ ~laserActive /\ ~laserBeam.present
    /\ wave < LASER_INTERVAL

-----------------------------------------------------------------------------
(* C20: a bullet kill adds pointsPerAlien for a normal enemy and three times *)
(* that for a charger to score in the frame of the kill, and a hit that does *)
(* not kill adds nothing.  In a frame without a beam (and without a contact) *)
(* every enemy that died was killed by a bullet, and score rose by the sum   *)
(* of the points of the enemies that died and by nothing else.               *)
C20_BulletKillPoints ==
    [][(RunningTick /\ NoContact /\ ~laserActive') =>
          /\ \A i \in DOMAIN aliens : Died(i) => ~ByBeam(i)
          /\ score' - score = Awarded(Len(aliens), 1)]_vars

(* the charger of wave 3 took two bullets: nothing for the first, 300 for    *)
(* the second, which completes the points of all enemies up to wave 3        *)
C20_Witness ==
    /\ session = 0 /\ wave = 3 /\ lives = maxLives
    /\ score = EarlierPoints(4)
    /\ \E i \in Chargers : ~aliens[i].alive /\ aliens[i].hits = 2

-----------------------------------------------------------------------------
(* C21: laserAvailable and laserActive are never both true; while the beam   *)
(* is active laserLastUsedWave is greater than 0; checkLaserAvailability     *)
(* returns the state it was given while the beam is active, and no step      *)
(* other than a reset changes laserAvailable while the beam is active.       *)
C21_AvailableXorActive ==
    /\ [](/\ ~(laserAvailable /\ laserActive)
          /\ laserActive => laserLastUsedWave > 0
          /\ laserActive => CheckLaserAvailability(Sim) = Sim)
    /\ [][(laserActive /\ ~Reset) => laserAvailable' = laserAvailable]_vars

(* the beam was fired in this wave and is active *)
C21_Witness ==
    /\ laserActive /\ laserBeam.present /\ ~laserAvailable
    /\ laserLastUsedWave = wave /\ ticks > 0

-----------------------------------------------------------------------------
(* C22: the frame that sets gameOver leaves wave and waveTransitioning as    *)
(* they were and schedules no spawn.                                         *)
C22_GameOverTickKeepsWave ==
    [][(RunningTick /\ gameOver') =>
          /\ wave' = wave
          /\ waveTransitioning' = waveTransitioning
          /\ timers' = timers]_vars

-----------------------------------------------------------------------------
(* C23: exactly one animate loop is scheduled, whatever lifecycle operations *)
(* have run (loops counts the requestAnimationFrame chains that were         *)
(* started; none is ever cancelled).                                         *)
C23_SingleTickLoop == loops = 1

-----------------------------------------------------------------------------
(* C24: wave is counted once per cleared wave.  A step that raises wave      *)
(* starts with the guard down and the registry emptied and ends with the     *)
(* guard up; a frame that runs with the guard up leaves wave alone; and the  *)
(* guard comes down only in a step that ends with the spawner's enemies in   *)
(* the registry, so the spawner runs between any two increments.             *)
C24_OneIncrementPerWave ==
    [][/\ wave' > wave =>
             /\ wave' = wave + 1
             /\ ~waveTransitioning /\ waveTransitioning'
             /\ aliens' = <<>>
       /\ (RunningTick /\ waveTransitioning) => wave' = wave
       /\ (waveTransitioning /\ ~waveTransitioning') =>
             /\ aliens' # <<>>
             /\ \A i \in DOMAIN aliens' : aliens'[i].alive]_vars

(* the only enemy of wave 4 reached the player in the second frame, wave 5   *)
(* was counted, and a third frame has run with the registry empty            *)
C24_Witness ==
    /\ session = 0 /\ ticks = 3 /\ wave = 5 /\ lives = maxLives - 1
    /\ waveTransitioning /\ aliens = <<>> /\ ~gameOver

-----------------------------------------------------------------------------
(* C25: gameOver is set only in a started game and, once true, is cleared    *)
(* only by a reset of a started game, which is restartGame or                *)
(* switchGameMode: startGame returns at once when the game is started, and   *)
(* no frame and no timer callback writes gameOver = false.                   *)
C25_GameOverUntilReset ==
    /\ [](gameOver => gameStarted)
    /\ [][(gameOver /\ ~gameOver') => (Reset /\ gameStarted)]_vars

(* the game ended in the frame that also counted wave 2; the spawn callback  *)
(* has fired since, and gameOver is still true                               *)
C25_Witness ==
    /\ gameOver /\ session = 0 /\ wave = 2
    /\ ~waveTransitioning /\ aliens # <<>> /\ timers = <<>>

-----------------------------------------------------------------------------
(* C26: whenever wave changes to a multiple of LASER_INTERVAL that is        *)
(* greater than laserLastUsedWave, the step ends with laserAvailable true.   *)
(* (checkLaserAvailability does nothing while a beam is active; no wave      *)
(* reaches the next multiple during the beam of the multiple before.)        *)
C26_RearmedAtNextMultiple ==
    [][(wave' # wave /\ wave' % LASER_INTERVAL = 0
            /\ wave' > laserLastUsedWave') => laserAvailable']_vars

(* used at wave 5, re-armed by the wave check that has just counted wave 10 *)
C26_Witness ==
    /\ wave = 2 * LASER_INTERVAL /\ laserLastUsedWave = LASER_INTERVAL
    /\ laserAvailable /\ waveTransitioning /\ aliens = <<>>

-----------------------------------------------------------------------------
(* the pending beam-end callbacks scheduled in the current session *)
OwnEndLaserTimers ==
    {k \in EndLaserTimers(timers) : timers[k].session = session}

-----------------------------------------------------------------------------
(* a step in which fireLaser succeeded *)
Fired == ~laserActive /\ laserActive'

-----------------------------------------------------------------------------
(* The bullets that enter the collision check of a frame: those of the       *)
(* registry and the one shoot made in this frame, after updateBullets.       *)
Entering ==
    UpdateBullets([bullets |->
        IF RunningTick /\ lastShootTime' # lastShootTime
        THEN Append(bullets, Bullet(playerShip'.x, playerZ - 1000000))
        ELSE bullets]).bullets

(* bullet collisions taken so far by the enemies of a registry *)
RECURSIVE TotalHits(_, _)
TotalHits(registry, i) ==
    IF i = 0 THEN 0 ELSE registry[i].hits + TotalHits(registry, i - 1)

(* C29: a bullet damages at most one enemy, once.  In a frame in which no    *)
(* enemy leaves the registry, the bullets that entered the collision check   *)
(* and are gone when the frame ends are exactly as many as the health        *)
(* decrements the enemies took from bullets in that frame, and every bullet  *)
(* still in the registry is one that entered the check, has no alive enemy   *)
(* within its radius, and so has damaged nothing.                            *)
C29_OneEnemyPerBullet ==
    [][(RunningTick /\ NoContact) =>
          /\ TotalHits(aliens', Len(aliens')) - TotalHits(aliens, Len(aliens))
                = Len(Entering) - Len(bullets')
          /\ \A k \in DOMAIN bullets' :
                /\ \E e \in DOMAIN Entering : Entering[e] = bullets'[k]
                /\ Matches(aliens', bullets'[k]) = {}
          /\ \A i \in DOMAIN aliens :
                (aliens'[i].alive \/ ~ByBeam(i)) =>
                    aliens[i].health - aliens'[i].health
                      = aliens'[i].hits - aliens[i].hits]_vars

(* a bullet had two alive enemies within its radius: it is gone, one of the  *)
(* two took the hit and the other is untouched                               *)
C29_Witness ==
    /\ bullets = <<>> /\ ticks = 1 /\ session = 0
    /\ Cardinality(resolved.matches) = 2
    /\ Len(aliens) = 2
    /\ TotalHits(aliens, Len(aliens)) = 1
    /\ \E j \in DOMAIN aliens : aliens[j].alive /\ aliens[j].hits = 0

-----------------------------------------------------------------------------
(* C30: no enemy awards points more than once.  score changes only in a      *)
(* frame or a reset; an enemy that is killed stays killed for as long as it  *)
(* is in the registry and neither scan touches it again; and the score of a  *)
(* frame rises by the points of exactly the enemies that went from alive to  *)
(* killed in that frame, each counted once, whether a bullet or the beam     *)
(* killed it.                                                                *)
C30_PointsOncePerEnemy ==
    /\ [][(score' # score /\ ~Reset) => RunningTick]_vars
    /\ [][(RunningTick /\ NoContact) =>
             /\ score' - score = Awarded(Len(aliens), 1)
             /\ \A i \in DOMAIN aliens :
                   ~aliens[i].alive =>
                       /\ ~aliens'[i].alive
                       /\ aliens'[i].hits = aliens[i].hits
                       /\ aliens'[i].health = aliens[i].health]_vars
    /\ [](\A i \in DOMAIN aliens :
             /\ aliens[i].hits <= HitsToKill(aliens[i])
             /\ aliens[i].alive <=> aliens[i].health > 0)

(* the beam killed an enemy (no bullet collision on it) and a bullet is      *)
(* within the hit radius of that killed enemy, still in the registry         *)
C30_Witness ==
    /\ laserActive /\ ticks >= 1
    /\ \E i \in DOMAIN aliens : \E k \in DOMAIN bullets :
          /\ ~aliens[i].alive /\ aliens[i].hits = 0
          /\ Within(bullets[k].x - aliens[i].x, bullets[k].z - aliens[i].z,
                    HitRadius(aliens[i]))

-----------------------------------------------------------------------------
(* the x the chargers steer to: playerShip ? playerShip.position.x : 0, read *)
(* after updatePlayer has moved the ship                                     *)
SteerX == IF playerShip'.present THEN playerShip'.x ELSE 0

(* C31: isCharging is true only for chargers; an alive charger is charging   *)
(* exactly when its health is 1; isCharging is never cleared; and in every   *)
(* frame a charging charger takes one lateral step of the sign of its        *)
(* distance to the player's x times twice the speed of the wave, and         *)
(* advances in depth by 4 x alienSpeed, whatever the wave (every other       *)
(* enemy advances by the speed of the wave and keeps its x).                 *)
C31_ChargingCharger ==
    /\ [](\A i \in DOMAIN aliens :
             /\ aliens[i].isCharging => aliens[i].type = "charger"
             /\ (aliens[i].alive /\ aliens[i].type = "charger") =>
                    (aliens[i].isCharging <=> aliens[i].health = 1))
    /\ [][(RunningTick /\ NoContact) =>
             \A i \in DOMAIN aliens :
                /\ aliens[i].isCharging => aliens'[i].isCharging
                /\ IF aliens[i].isCharging
                   THEN /\ aliens'[i].x = aliens[i].x
                             + Sign(SteerX - aliens[i].x) * SpeedAtWave(wave) * 2
                        /\ aliens'[i].z = aliens[i].z + 4 * alienSpeed
                   ELSE /\ aliens'[i].x = aliens[i].x
                        /\ aliens'[i].z = aliens[i].z + SpeedAtWave(wave)]_vars

(* a charger damaged by one bullet is charging and has left its column       *)
(* toward the ship                                                           *)
C31_Witness ==
    \E i \in DOMAIN aliens :
        /\ aliens[i].type = "charger" /\ aliens[i].alive
        /\ aliens[i].isCharging /\ aliens[i].health = 1 /\ aliens[i].hits = 1
        /\ \A p \in JitterDraws : aliens[i].x # SpawnChargerAlien(0, p).x
        /\ ChargerCount(wave) = 1

-----------------------------------------------------------------------------
(* C32: the health of every enemy in the registry is one of 0, 1, 2: 1 for   *)
(* an alive normal enemy, 2 or 1 for an alive charger, and an enemy is alive *)
(* exactly when its health is above 0.                                       *)
C32_HealthRange ==
    \A i \in DOMAIN aliens :
        /\ aliens[i].health \in 0..2
        /\ (aliens[i].alive /\ aliens[i].type = "normal") => aliens[i].health = 1
        /\ (aliens[i].alive /\ aliens[i].type = "charger") => aliens[i].health \in {1, 2}
        /\ aliens[i].alive <=> aliens[i].health > 0

(* a charger that two bullets killed is still in the registry, at health 0   *)
C32_Witness ==
    \E i \in DOMAIN aliens :
        /\ aliens[i].type = "charger" /\ ~aliens[i].alive
        /\ aliens[i].health = 0 /\ aliens[i].hits = 2

-----------------------------------------------------------------------------
(* the enemy at index i is in the lane of the beam when the beam sweeps: the *)
(* beam has taken the x of the ship after updatePlayer, the enemies have not *)
(* moved yet                                                                 *)
InLane(i) == Abs(aliens[i].x - playerShip'.x) < laserHitWidth

(* C33: an active beam has a beam object and a ship to follow, and in every  *)
(* frame with the beam active each alive enemy in the lane is killed (health *)
(* 0, alive false) whatever its type, health and depth, while an enemy       *)
(* outside the lane loses health to bullets only.                            *)
C33_BeamKillsLane ==
    /\ [](laserActive => (laserBeam.present /\ playerShip.present))
    /\ [][(RunningTick /\ NoContact /\ laserActive') =>
             /\ laserBeam'.x = playerShip'.x
             /\ \A i \in DOMAIN aliens :
                   IF aliens[i].alive /\ InLane(i)
                   THEN ~aliens'[i].alive /\ aliens'[i].health = 0
                   ELSE aliens[i].health - aliens'[i].health
                          = aliens'[i].hits - aliens[i].hits]_vars

(* a frame of the beam: an enemy in the lane was killed without a bullet     *)
(* collision, an enemy outside the lane is alive                             *)
C33_Witness ==
    /\ laserActive /\ ticks >= 1
    /\ \E i, j \in DOMAIN aliens :
          /\ ~aliens[i].alive /\ aliens[i].hits = 0
          /\ Abs(aliens[i].x - laserBeam.x) < laserHitWidth
          /\ aliens[j].alive
          /\ ~(Abs(aliens[j].x - laserBeam.x) < laserHitWidth)

-----------------------------------------------------------------------------
(* the killed enemies of a registry: their destruction animations are still  *)
(* running                                                                   *)
Killed(registry) == {i \in DOMAIN registry : ~registry[i].alive}

(* C34: a killed enemy stays in the registry until its destruction animation *)
(* ends: no frame of the game takes a killed enemy out of the registry, and  *)
(* the wave advances only from a state in which no destruction animation is  *)
(* still running.                                                            *)
C34_KilledUntilAnimated ==
    [][/\ RunningTick =>
             Cardinality(Killed(aliens')) >= Cardinality(Killed(aliens))
       /\ wave' > wave => Killed(aliens) = {}]_vars

-----------------------------------------------------------------------------
(* a step in which spawnAlienGrid ran: the spawn callback, or startGame or   *)
(* restartGame (the resets that leave the game started)                      *)
SpawnerRan ==
    \/ timers # <<>> /\ Head(timers).kind = "spawn" /\ timers' = Tail(timers)
    \/ Reset /\ gameStarted'

(* C35: no enemy persists across waves.  wave changes only on an empty      *)
(* registry or in a run of the spawner; a run of the spawner leaves exactly  *)
(* the enemies of the wave, all new (alive, untouched), whatever the         *)
(* registry held before; no other step adds an enemy; so the registry never  *)
(* holds more normal enemies or chargers than the spawner makes for the      *)
(* current wave.                                                             *)
C35_NoEnemyAcrossWaves ==
    /\ [][wave' # wave => aliens' = <<>> \/ SpawnerRan]_vars
    /\ [][IF SpawnerRan
          THEN /\ \E p \in JitterDraws : aliens' = SpawnAlienGrid(wave', p)
               /\ \A i \in DOMAIN aliens' :
                     aliens'[i].alive /\ aliens'[i].hits = 0
          ELSE Len(aliens') <= Len(aliens)]_vars
    /\ [](/\ Cardinality(Normals) <= AlienCount(wave)
          /\ Cardinality(Chargers) <= ChargerCount(wave))

(* the last enemy of a wave was shot, wave was raised on the empty registry, *)
(* and the spawn callback has filled the registry with the enemies of the    *)
(* new wave                                                                  *)
C35_Witness ==
    /\ session = 0 /\ ~gameOver /\ wave > 1 /\ lives = maxLives
    /\ ticks >= 1 /\ score = EarlierPoints(wave)
    /\ timers = <<>> /\ ~waveTransitioning
    /\ \E p \in JitterDraws : aliens = SpawnAlienGrid(wave, p)

-----------------------------------------------------------------------------
(* C36: the order of the steps of a frame, by what the frame leaves behind.  *)
(* Player move before shoot, shoot before bullet advance: the bullet made in *)
(* the frame starts at the ship's new x and has moved once (or has hit).     *)
(* Beam fire before beam sweep, sweep before enemy move: the frame that      *)
(* fires the beam puts it at the ship's new x and kills the alive enemies    *)
(* that were in the lane before they moved.  Enemy move before collisions:   *)
(* no bullet that is left has an alive enemy, at its moved position, within  *)
(* reach.  Collisions and contacts before the wave check: wave is raised in  *)
(* the frame that empties the registry.  The spawner never runs in a frame:  *)
(* a frame adds no enemy, and the frame that detects the clear leaves the    *)
(* registry empty with the spawn callback pending.                           *)
C36_FrameOrder ==
    /\ [][(RunningTick /\ ~thrown') =>
             /\ (lastShootTime' # lastShootTime) =>
                   /\ \/ FreshBullets(bullets') # {}
                      \/ TotalHits(aliens', Len(aliens')) > 0
                   /\ \A k \in FreshBullets(bullets') :
                         bullets'[k].x = playerShip'.x
             /\ Fired =>
                   /\ laserBeam'.x = playerShip'.x
                   /\ NoContact =>
                         \A i \in DOMAIN aliens :
                            (aliens[i].alive /\ InLane(i)) => ~aliens'[i].alive
             /\ \A k \in DOMAIN bullets' : Matches(aliens', bullets'[k]) = {}
             /\ (aliens' = <<>> /\ ~waveTransitioning) => wave' = wave + 1
             /\ wave' # wave =>
                   /\ aliens' = <<>>
                   /\ timers' # <<>>
                   /\ timers'[Len(timers')].kind = "spawn"
             /\ Len(aliens') <= Len(aliens)]_vars
    /\ [][SpawnerRan => ~RunningTick]_vars

(* one frame that moved the ship, made a bullet and fired the beam: the      *)
(* bullet has moved once from the ship's new x, the beam has killed          *)
C36_Witness ==
    /\ ticks = 1 /\ laserActive /\ laserBeam.x = playerShip.x
    /\ \E k \in FreshBullets(bullets) : bullets[k].x = playerShip.x
    /\ \E i \in DOMAIN aliens : ~aliens[i].alive /\ aliens[i].hits = 0

-----------------------------------------------------------------------------
(* C37: gameOver is true exactly when lives <= 0.  lives reaches 0 only in a *)
(* frame, by a player hit, and that frame leaves gameOver set; every reset   *)
(* gives lives = maxLives and gameOver = false.                              *)
C37_GameOverIffNoLives ==
    /\ [](gameOver <=> lives <= 0)
    /\ [][(lives > 0 /\ lives' <= 0) =>
             (RunningTick /\ gameOver' /\ Len(aliens') < Len(aliens))]_vars
    /\ [][Reset => (lives' = maxLives /\ ~gameOver')]_vars

(* the last life was lost to one enemy: lives is 0 and the game is over      *)
C37_Witness == gameOver /\ lives = 0 /\ ~thrown /\ ticks >= 1 /\ session = 0

-----------------------------------------------------------------------------
(* the spawn callbacks still pending *)
SpawnTimers == {k \in DOMAIN timers : timers[k].kind = "spawn"}

(* C38: a wave transition always completes.  While waveTransitioning is true *)
(* a spawn callback is pending, so the guard is never stuck; and under the   *)
(* fairness that pending timeouts fire, waveTransitioning leads to the guard *)
(* cleared with the registry filled, also from the states in which the game  *)
(* is not started (after switchGameMode) or is over.                         *)
C38_TransitionCompletes ==
    /\ [](waveTransitioning => SpawnTimers # {})
    /\ [](~(gameStarted /\ ~gameOver /\ aliens = <<>> /\ waveTransitioning
               /\ timers = <<>>))
    /\ ((waveTransitioning /\ (~gameStarted \/ gameOver))
            ~> (~waveTransitioning /\ aliens # <<>>))
    /\ ((waveTransitioning /\ gameStarted /\ ~gameOver)
            ~> (~waveTransitioning /\ aliens # <<>>))

(* switchGameMode came during the delay: the callback has run in the game    *)
(* that is not started, cleared the guard and filled the registry            *)
C38_Witness ==
    /\ ~gameStarted /\ session > 0
    /\ ~waveTransitioning /\ aliens # <<>> /\ timers = <<>>

-----------------------------------------------------------------------------
(* the frames a bullet spends in the registry at most: from one step behind  *)
(* its start depth playerZ - 1 down to, and not past, the far threshold      *)
BulletLife == (playerZ - 1000000 - bulletMinZ) \div bulletSpeed

(* the bullet of the registry at index e after the move of this frame *)
Moved(e) == [bullets[e] EXCEPT !.z = @ - bulletSpeed]

(* C39: in every frame each bullet moves away from the player by bulletSpeed *)
(* and leaves the registry in the frame in which its depth passes the far    *)
(* threshold or in which it hits an enemy, and otherwise stays; the bullets  *)
(* of the registry lie at pairwise different depths between the threshold    *)
(* and the first step from the ship, so they are at most BulletLife; and     *)
(* while frames keep running the bullets in flight are all removed.          *)
C39_BulletFlight ==
    /\ [][RunningTick =>
             /\ \A k \in DOMAIN bullets' :
                   \E e \in DOMAIN bullets : bullets'[k] = Moved(e)
             /\ \A e \in DOMAIN bullets :
                   IF \E k \in DOMAIN bullets' : bullets'[k] = Moved(e)
                   THEN /\ ~(Moved(e).z < bulletMinZ)
                        /\ Matches(aliens', Moved(e)) = {}
                   ELSE \/ Moved(e).z < bulletMinZ
                        \/ \E j \in DOMAIN aliens' :
                              /\ aliens'[j].hits > aliens[j].hits
                              /\ Within(Moved(e).x - aliens'[j].x,
                                        Moved(e).z - aliens'[j].z,
                                        HitRadius(aliens'[j]))]_vars
    /\ [](/\ \A k \in DOMAIN bullets :
                /\ bullets[k].z >= bulletMinZ
                /\ bullets[k].z <= playerZ - 1000000 - bulletSpeed
                /\ \A l \in DOMAIN bullets : k < l => bullets[k].z < bullets[l].z
          /\ Len(bullets) <= BulletLife)
    /\ (bullets # <<>> ~> bullets = <<>>)

(* shots were made, no enemy was hit, and no bullet is left: each one has    *)
(* passed the far threshold                                                  *)
C39_Witness ==
    /\ ticks >= 1 /\ bullets = <<>>
    /\ lastShootTime > FirstReading
    /\ TotalHits(aliens, Len(aliens)) = 0

-----------------------------------------------------------------------------
(* C40: a frame with both the left and the right intent leaves the ship's x  *)
(* as it was, at the two bounds as well as inside them; a frame with one of  *)
(* them moves the ship by playerSpeed in that direction, not beyond the      *)
(* bound; a frame with neither leaves it.                                    *)
C40_LeftRightMove ==
    [][(RunningTick /\ playerShip.present) =>
          playerShip'.x =
             IF keys.left /\ keys.right THEN playerShip.x
             ELSE IF keys.left
                  THEN (IF playerShip.x - playerSpeed < -playerBounds
                        THEN -playerBounds ELSE playerShip.x - playerSpeed)
             ELSE IF keys.right
                  THEN (IF playerShip.x + playerSpeed > playerBounds
                        THEN playerBounds ELSE playerShip.x + playerSpeed)
             ELSE playerShip.x]_vars

(* both keys held through a frame with the ship at the left bound *)
C40_Witness ==
    /\ playerShip.x = -playerBounds /\ keys.left /\ keys.right
    /\ ticks >= 1 /\ presses = 2

====
